---- MODULE Spec2Model ----
(***************************************************************************)
(* kaolin.ops.conversions.trianglemesh.trianglemeshes_to_voxelgrids        *)
(*                                                                         *)
(* One call of the entry point is modelled as a sequential process whose   *)
(* position pc walks the statements of the function.  Coordinates are      *)
(* exact rationals: a point is [n |-> <<x, y, z>>, d |-> den], standing    *)
(* for (x/den, y/den, z/den), kept in lowest terms with den > 0; den = 0   *)
(* marks a non-finite point (inf / nan) produced by a division by zero.    *)
(* Floating-point rounding is not modelled.  The two helpers imported by   *)
(* the entry point, _unbatched_subdivide_vertices and                      *)
(* _base_points_to_voxelgrids, follow sections 4.2 and 4.3 of the          *)
(* specification.                                                          *)
(* Face indices are 0-based as in the source; TLA+ sequences are 1-based.  *)
(***************************************************************************)
EXTENDS Integers, Sequences, FiniteSets, TLC

VARIABLES vertices, faces, resolution, resolution_type, origin, scale,
          return_sparse, origin_omitted, scale_omitted,
          pc, voxelgrids, batched_points, i, points, error, result

vars == <<vertices, faces, resolution, resolution_type, origin, scale,
          return_sparse, origin_omitted, scale_omitted,
          pc, voxelgrids, batched_points, i, points, error, result>>

(* ------------------------------ bounds --------------------------------- *)
MaxBatch == 2
MaxRes == 3

Axes == 1..3

(* ------------------------- integer helpers ----------------------------- *)
Abs(x) == IF x < 0 THEN -x ELSE x

Sign(x) == IF x < 0 THEN -1 ELSE IF x > 0 THEN 1 ELSE 0

RECURSIVE GCD(_, _)
GCD(a, b) == IF b = 0 THEN a ELSE GCD(b, a % b)

RECURSIVE Pow4(_)
Pow4(d) == IF d = 0 THEN 1 ELSE 4 * Pow4(d - 1)

(* reduction of a sequence of integers with torch.min / torch.max *)
RECURSIVE SeqMin(_)
SeqMin(s) ==
  IF Len(s) = 1 THEN s[1]
  ELSE LET m == SeqMin(Tail(s)) IN IF s[1] < m THEN s[1] ELSE m

RECURSIVE SeqMax(_)
SeqMax(s) ==
  IF Len(s) = 1 THEN s[1]
  ELSE LET m == SeqMax(Tail(s)) IN IF s[1] > m THEN s[1] ELSE m

(* slip: the per-axis maximum taken where the minimum is meant *)
TorchMinDim1AsMax(vs) ==
  [b \in 1..Len(vs) |->
     [a \in Axes |-> SeqMax([k \in 1..Len(vs[b]) |-> vs[b][k][a]])]]

(* torch.min(vertices, dim=1)[0] : shape (B, V, 3) -> (B, 3) *)
TorchMinDim1(vs) ==
  [b \in 1..Len(vs) |->
     [a \in Axes |-> SeqMin([k \in 1..Len(vs[b]) |-> vs[b][k][a]])]]

(* torch.max(vertices, dim=1)[0] : shape (B, V, 3) -> (B, 3) *)
TorchMaxDim1(vs) ==
  [b \in 1..Len(vs) |->
     [a \in Axes |-> SeqMax([k \in 1..Len(vs[b]) |-> vs[b][k][a]])]]

(* slip: the smallest axis extent taken where the largest is meant *)
DefaultScaleMinAxis(max_val, org) ==
  [b \in 1..Len(max_val) |->
     SeqMin([a \in Axes |-> max_val[b][a] - org[b][a]])]

(* torch.max(max_val - origin, dim=1)[0] : shape (B, 3) -> (B) *)
DefaultScale(max_val, org) ==
  [b \in 1..Len(max_val) |->
     SeqMax([a \in Axes |-> max_val[b][a] - org[b][a]])]

(* ------------------------- rational points ----------------------------- *)
Reduce(p) ==
  LET g == GCD(GCD(GCD(Abs(p.n[1]), Abs(p.n[2])), Abs(p.n[3])), p.d)
  IN  [n |-> [a \in Axes |-> p.n[a] \div g], d |-> p.d \div g]

(* true division of a 3-vector by one scalar, as float division does it:  *)
(* x / 0 is +inf, -inf or nan according to the sign of x                  *)
TrueDiv(num, s) ==
  IF s > 0 THEN Reduce([n |-> num, d |-> s])
  ELSE IF s < 0 THEN Reduce([n |-> [a \in Axes |-> -num[a]], d |-> -s])
  ELSE [n |-> [a \in Axes |-> Sign(num[a])], d |-> 0]

IsFinite(p) == p.d > 0

(* slip: the first item's origin and scale applied to the whole batch *)
NormalizeBatchFirstItem(vs, org, sc) ==
  [b \in 1..Len(vs) |->
     [k \in 1..Len(vs[b]) |->
        TrueDiv([a \in Axes |-> vs[b][k][a] - org[1][a]], sc[1])]]

(* (vertices - origin.unsqueeze(1)) / scale.view(-1, 1, 1) *)
NormalizeBatch(vs, org, sc) ==
  [b \in 1..Len(vs) |->
     [k \in 1..Len(vs[b]) |->
        TrueDiv([a \in Axes |-> vs[b][k][a] - org[b][a]], sc[b])]]

(* ------------------------- Subdivider (spec 4.2) ------------------------ *)
(* squared length of the edge p-q as the fraction num / den *)
EdgeLen2(p, q) ==
  [num |-> (p.n[1] * q.d - q.n[1] * p.d) * (p.n[1] * q.d - q.n[1] * p.d)
         + (p.n[2] * q.d - q.n[2] * p.d) * (p.n[2] * q.d - q.n[2] * p.d)
         + (p.n[3] * q.d - q.n[3] * p.d) * (p.n[3] * q.d - q.n[3] * p.d),
   den |-> (p.d * q.d) * (p.d * q.d)]

(* after d halvings edge p-q is at most one voxel wide: |pq| / 2^d <= 1/R *)
EdgeFits(p, q, R, d) ==
  LET e == EdgeLen2(p, q) IN e.num * R * R <= Pow4(d) * e.den

TriEdges(t) == {<<t[1], t[2]>>, <<t[2], t[3]>>, <<t[1], t[3]>>}

(* number of rounds, derived from the longest edge and the voxel width *)
RECURSIVE DepthFrom(_, _, _)
DepthFrom(t, R, d) ==
  IF \A e \in TriEdges(t) : EdgeFits(e[1], e[2], R, d)
  THEN d
  ELSE DepthFrom(t, R, d + 1)

(* slip: one round too few *)
DepthOneShort(t, R) ==
  IF DepthFrom(t, R, 0) > 0 THEN DepthFrom(t, R, 0) - 1 ELSE 0

Depth(t, R) == DepthFrom(t, R, 0)

Midpoint(p, q) ==
  Reduce([n |-> [a \in Axes |-> p.n[a] * q.d + q.n[a] * p.d],
          d |-> 2 * p.d * q.d])

(* 4-way split of one triangle by the midpoints of its three edges *)
Split(t) ==
  LET m12 == Midpoint(t[1], t[2])
      m23 == Midpoint(t[2], t[3])
      m13 == Midpoint(t[1], t[3])
  IN  {<<t[1], m12, m13>>, <<m12, t[2], m23>>,
       <<m13, m23, t[3]>>, <<m12, m23, m13>>}

(* the sub-triangles of the set T after d further rounds *)
RECURSIVE SubTriangles(_, _)
SubTriangles(T, d) ==
  IF d = 0 THEN T
  ELSE SubTriangles(UNION {Split(t) : t \in T}, d - 1)

TriVertices(T) == UNION {{t[1], t[2], t[3]} : t \in T}

(* all vertices produced for one face: originals and every midpoint *)
FacePoints(t, R) == TriVertices(SubTriangles({t}, Depth(t, R)))

FaceIndexOk(f, V) == \A c \in 1..3 : f[c] >= 0 /\ f[c] < V

FaceTriangle(pts, f) == <<pts[f[1] + 1], pts[f[2] + 1], pts[f[3] + 1]>>

(* subdivide(vertices, faces, resolution) -> points, one unbatched mesh *)
unbatched_subdivide_vertices(pts, fs, R) ==
  IF R <= 0
     \/ (\E k \in 1..Len(fs) : ~FaceIndexOk(fs[k], Len(pts)))
     \/ (\E k \in 1..Len(pts) : ~IsFinite(pts[k]))
  THEN [ok |-> FALSE, error |-> "InvalidArgument", points |-> {}]
  ELSE [ok |-> TRUE, error |-> "",
        points |-> {pts[k] : k \in 1..Len(pts)}
                   \cup UNION {FacePoints(FaceTriangle(pts, fs[k]), R) :
                                 k \in 1..Len(fs)}]

(* ------------------------- Rasterizer (spec 4.3) ------------------------ *)
Cells(R) == (0..(R - 1)) \X (0..(R - 1)) \X (0..(R - 1))

InUnitCube(p) == \A a \in Axes : p.n[a] >= 0 /\ p.n[a] <= p.d

(* floor(p * resolution) per axis, p = 1.0 clamped to resolution - 1 *)
AxisIndex(x, d, R) == IF x = d THEN R - 1 ELSE (x * R) \div d

VoxelIndex(p, R) ==
  <<AxisIndex(p.n[1], p.d, R), AxisIndex(p.n[2], p.d, R),
    AxisIndex(p.n[3], p.d, R)>>

OccupiedIndices(P, R) == {VoxelIndex(p, R) : p \in {q \in P : InUnitCube(q)}}

(* sparse index set -> dense array *)
ToDense(S, R) == [c \in Cells(R) |-> IF c \in S THEN 1 ELSE 0]

base_points_to_voxelgrids(P, R, sparse) ==
  IF sparse
  THEN [kind |-> "sparse", indices |-> OccupiedIndices(P, R), grid |-> <<>>]
  ELSE [kind |-> "dense", indices |-> {},
        grid |-> ToDense(OccupiedIndices(P, R), R)]

(* ------------------------------ inputs --------------------------------- *)
DocTriangle == <<<<0, 0, 0>>, <<1, 0, 0>>, <<0, 0, 1>>>>
Slanted     == <<<<2, 2, 0>>, <<4, 3, 0>>, <<2, 1, 0>>>>
Coincident  == <<<<1, 1, 1>>, <<1, 1, 1>>, <<1, 1, 1>>>>

MeshItems == {DocTriangle, Slanted, Coincident}

Batches == UNION {[1..b -> MeshItems] : b \in 0..MaxBatch}

FaceLists == {<< <<0, 1, 2>> >>, << <<0, 1, 2>>, <<0, 0, 1>> >>,
              << <<0, 1, 3>> >>, << <<-1, 1, 2>> >>}

OriginValues == {<<0, 0, 0>>, <<1, 0, 0>>}

ScaleValues == {-1, 0, 1, 6}

BatchSize == Len(vertices)

(* ------------------------------ the call ------------------------------- *)
Init ==
  /\ vertices \in Batches
  /\ faces \in FaceLists
  /\ \/ resolution_type = "int" /\ resolution \in (-1)..MaxRes
     \/ resolution_type = "float" /\ resolution = MaxRes
  /\ \/ origin_omitted = TRUE /\ origin = <<>>
     \/ /\ origin_omitted = FALSE
        /\ \E o \in OriginValues : origin = [b \in 1..Len(vertices) |-> o]
  /\ \/ scale_omitted = TRUE /\ scale = <<>>
     \/ /\ scale_omitted = FALSE
        /\ \E s \in ScaleValues : scale = [b \in 1..Len(vertices) |-> s]
  /\ return_sparse \in BOOLEAN
  /\ pc = "check_resolution"
  /\ voxelgrids = <<>>
  /\ batched_points = <<>>
  /\ i = 0
  /\ points = {}
  /\ error = ""
  /\ result = [kind |-> "none", grids |-> <<>>]

Raise(e) == pc' = "raised" /\ error' = e

(* if not isinstance(resolution, int): raise TypeError *)
CheckResolution ==
  /\ pc = "check_resolution"
  /\ IF resolution_type # "int"
     THEN Raise("TypeError")
     ELSE pc' = "default_origin" /\ error' = error
  /\ UNCHANGED <<vertices, faces, resolution, resolution_type, origin, scale,
                 return_sparse, origin_omitted, scale_omitted, voxelgrids,
                 batched_points, i, points, result>>

(* if origin is None: origin = torch.min(vertices, dim=1)[0] *)
ResolveOrigin ==
  /\ pc = "default_origin"
  /\ origin' = IF origin_omitted THEN TorchMinDim1(vertices) ELSE origin
  /\ pc' = "default_scale"
  /\ UNCHANGED <<vertices, faces, resolution, resolution_type, scale,
                 return_sparse, origin_omitted, scale_omitted, voxelgrids,
                 batched_points, i, points, error, result>>

(* if scale is None: scale = max over axes of (max_val - origin) *)
ResolveScale ==
  /\ pc = "default_scale"
  /\ scale' = IF scale_omitted
              THEN DefaultScale(TorchMaxDim1(vertices), origin)
              ELSE scale
  /\ pc' = "allocate"
  /\ UNCHANGED <<vertices, faces, resolution, resolution_type, origin,
                 return_sparse, origin_omitted, scale_omitted, voxelgrids,
                 batched_points, i, points, error, result>>

(* voxelgrids = torch.zeros((batch_size, resolution, resolution, resolution)) *)
(* torch.zeros rejects a negative dimension with a RuntimeError               *)
Allocate ==
  /\ pc = "allocate"
  /\ IF resolution < 0
     THEN Raise("RuntimeError") /\ voxelgrids' = voxelgrids
     ELSE /\ voxelgrids' = [b \in 1..BatchSize |-> ToDense({}, resolution)]
          /\ pc' = "normalize"
          /\ error' = error
  /\ UNCHANGED <<vertices, faces, resolution, resolution_type, origin, scale,
                 return_sparse, origin_omitted, scale_omitted,
                 batched_points, i, points, result>>

(* batched_points = (vertices - origin.unsqueeze(1)) / scale.view(-1, 1, 1) *)
Normalize ==
  /\ pc = "normalize"
  /\ batched_points' = NormalizeBatch(vertices, origin, scale)
  /\ i' = 0
  /\ pc' = "loop"
  /\ UNCHANGED <<vertices, faces, resolution, resolution_type, origin, scale,
                 return_sparse, origin_omitted, scale_omitted, voxelgrids,
                 points, error, result>>

(* slip: the item's own vertices rasterized without subdividing *)
ConvertItemUnsubdivided(pts, fs, R, sparse) ==
  LET sub == unbatched_subdivide_vertices(pts, fs, R)
      raw == {pts[k] : k \in 1..Len(pts)}
  IN  [ok |-> sub.ok, error |-> sub.error, points |-> raw,
       voxelgrid |-> base_points_to_voxelgrids(raw, R, sparse)]

(* the body of the loop for one item:                                      *)
(*   points = _unbatched_subdivide_vertices(batched_points[i], faces, res) *)
(*   voxelgrid = _base_points_to_voxelgrids(points.unsqueeze(0), res, ...) *)
ConvertItem(pts, fs, R, sparse) ==
  LET sub == unbatched_subdivide_vertices(pts, fs, R)
  IN  [ok |-> sub.ok, error |-> sub.error, points |-> sub.points,
       voxelgrid |-> base_points_to_voxelgrids(sub.points, R, sparse)]

(* one iteration of: for i in range(batch_size)                            *)
(* voxelgrids[i] = voxelgrid stores a sparse tensor into a dense one when  *)
(* return_sparse is set: the tensor runtime either rejects the copy or     *)
(* densifies the operand                                                    *)
ProcessItem ==
  /\ pc = "loop"
  /\ i < BatchSize
  /\ LET item == ConvertItem(batched_points[i + 1], faces, resolution,
                             return_sparse)
     IN  \/ /\ ~item.ok
            /\ Raise(item.error)
            /\ UNCHANGED <<voxelgrids, i, points>>
         \/ /\ item.ok
            /\ item.voxelgrid.kind = "dense"
            /\ points' = item.points
            /\ voxelgrids' = [voxelgrids EXCEPT ![i + 1] = item.voxelgrid.grid]
            /\ i' = i + 1
            /\ UNCHANGED <<pc, error>>
         \/ /\ item.ok
            /\ item.voxelgrid.kind = "sparse"
            /\ points' = item.points
            /\ Raise("RuntimeError")
            /\ UNCHANGED <<voxelgrids, i>>
         \/ /\ item.ok
            /\ item.voxelgrid.kind = "sparse"
            /\ points' = item.points
            /\ voxelgrids' = [voxelgrids EXCEPT
                                ![i + 1] = ToDense(item.voxelgrid.indices,
                                                   resolution)]
            /\ i' = i + 1
            /\ UNCHANGED <<pc, error>>
  /\ UNCHANGED <<vertices, faces, resolution, resolution_type, origin, scale,
                 return_sparse, origin_omitted, scale_omitted,
                 batched_points, result>>

(* return voxelgrids *)
Return ==
  /\ pc = "loop"
  /\ i = BatchSize
  /\ result' = [kind |-> "dense", grids |-> voxelgrids]
  /\ pc' = "done"
  /\ UNCHANGED <<vertices, faces, resolution, resolution_type, origin, scale,
                 return_sparse, origin_omitted, scale_omitted, voxelgrids,
                 batched_points, i, points, error>>

Next ==
  \/ CheckResolution
  \/ ResolveOrigin
  \/ ResolveScale
  \/ Allocate
  \/ Normalize
  \/ ProcessItem
  \/ Return

Spec == Init /\ [][Next]_vars

TypeOK ==
  /\ pc \in {"check_resolution", "default_origin", "default_scale",
             "allocate", "normalize", "loop", "done", "raised"}
  /\ i \in 0..BatchSize
  /\ error \in {"", "TypeError", "RuntimeError", "InvalidArgument"}

(* ------------------------------ properties ----------------------------- *)
Normalized == pc \in {"loop", "done"}

DocOccupied == {<<0, 0, 0>>, <<0, 0, 1>>, <<0, 0, 2>>,
                <<1, 0, 0>>, <<1, 0, 1>>, <<2, 0, 0>>}

DocCall ==
  /\ vertices = <<DocTriangle>>
  /\ faces = << <<0, 1, 2>> >>
  /\ resolution_type = "int" /\ resolution = 3
  /\ ~origin_omitted /\ origin = << <<0, 0, 0>> >>
  /\ ~scale_omitted /\ scale = <<1>>
  /\ ~return_sparse

(* C3: the docstring call (one triangle (0,0,0), (1,0,0), (0,0,1), faces   *)
(* [[0,1,2]], resolution 3, origin 0, scale 1) returns a 1x3x3x3 binary    *)
(* grid whose occupied cells [x][y][z] are exactly (0,0,0), (0,0,1),       *)
(* (0,0,2), (1,0,0), (1,0,1), (2,0,0); the vertex at x = 1.0 is in x = 2.  *)
C3_DocstringGrid ==
  (DocCall /\ pc \in {"done", "raised"}) =>
     /\ pc = "done"
     /\ result.kind = "dense"
     /\ Len(result.grids) = 1
     /\ DOMAIN result.grids[1] = Cells(3)
     /\ \A c \in Cells(3) : result.grids[1][c] = 1 <=> c \in DocOccupied
     /\ \A c \in Cells(3) : result.grids[1][c] \in {0, 1}

C3_Witness == DocCall /\ pc = "done" /\ result.grids[1][<<2, 0, 0>>] = 1

(* ---- C1 ---- *)
IsLeast(x, S) == x \in S /\ \A y \in S : x <= y

IsGreatest(x, S) == x \in S /\ \A y \in S : y <= x

AxisValues(b, a) == {vertices[b][k][a] : k \in 1..Len(vertices[b])}

AxisExtents(b) ==
  {CHOOSE m \in {vertices[b][k][a] - origin[b][a] :
                   k \in 1..Len(vertices[b])} :
      \A k \in 1..Len(vertices[b]) : vertices[b][k][a] - origin[b][a] <= m :
   a \in Axes}

(* p is the vertex v moved by the item's origin and divided by its scale *)
IsQuotient(p, v, o, s) ==
  IF s = 0 THEN ~IsFinite(p)
  ELSE IsFinite(p) /\ \A a \in Axes : p.n[a] * s = (v[a] - o[a]) * p.d

(* C1: with origin omitted, origin[i] is the per-axis minimum of item i's  *)
(* vertices; with scale omitted (origin omitted or supplied), scale[i] is  *)
(* the maximum over the axes of (per-axis maximum - origin[i]); and every  *)
(* vertex v of item i is mapped to (v - origin[i]) / scale[i], one scalar  *)
(* scale[i] for all three axes.                                            *)
C1_DefaultNormalization ==
  Normalized =>
    \A b \in 1..BatchSize :
      /\ origin_omitted =>
           \A a \in Axes : IsLeast(origin[b][a], AxisValues(b, a))
      /\ scale_omitted => IsGreatest(scale[b], AxisExtents(b))
      /\ \A k \in 1..Len(vertices[b]) :
           IsQuotient(batched_points[b][k], vertices[b][k],
                      origin[b], scale[b])

C1_Witness ==
  /\ Normalized
  /\ origin_omitted /\ scale_omitted
  /\ BatchSize = 2
  /\ vertices[1] = Slanted /\ vertices[2] = DocTriangle
  /\ scale = <<2, 1>>

(* ---- C10 ---- *)
AllCoincident(b) ==
  \A k \in 1..Len(vertices[b]) : vertices[b][k] = vertices[b][1]

(* C10: with origin and scale both omitted and the item's vertices not all *)
(* coincident, every normalized coordinate is in [0, 1], the per-axis      *)
(* minimum of the normalized vertices is 0 on each axis, and some          *)
(* normalized coordinate equals 1.                                         *)
C10_DefaultsFillUnitCube ==
  (Normalized /\ origin_omitted /\ scale_omitted) =>
    \A b \in 1..BatchSize :
      ~AllCoincident(b) =>
        LET P == batched_points[b]
        IN  /\ \A k \in 1..Len(P) : IsFinite(P[k]) /\ InUnitCube(P[k])
            /\ \A a \in Axes : \E k \in 1..Len(P) : P[k].n[a] = 0
            /\ \E k \in 1..Len(P), a \in Axes : P[k].n[a] = P[k].d

C10_Witness ==
  /\ Normalized /\ origin_omitted /\ scale_omitted
  /\ BatchSize >= 1
  /\ vertices[1] = Slanted
  /\ batched_points[1][2] = [n |-> <<1, 1, 0>>, d |-> 1]

(* the same bound for a caller-supplied origin or scale; it does not hold:  *)
(* a supplied scale of -1, or an origin above a vertex, gives coordinates  *)
(* below 0, and a scale smaller than the extent gives coordinates above 1  *)
C10_SuppliedStaysInside ==
  (Normalized /\ (~origin_omitted \/ ~scale_omitted)) =>
    \A b \in 1..BatchSize : \A k \in 1..Len(batched_points[b]) :
      IsFinite(batched_points[b][k]) => InUnitCube(batched_points[b][k])

(* ---- C2 ---- *)
(* the call on the one-item batch holding item b, with item b's origin and *)
(* scale when the caller supplied them and with neither otherwise          *)
SingleVertices(b) == <<vertices[b]>>

SingleOrigin(b) ==
  IF origin_omitted THEN TorchMinDim1(SingleVertices(b)) ELSE <<origin[b]>>

SingleScale(b) ==
  IF scale_omitted
  THEN DefaultScale(TorchMaxDim1(SingleVertices(b)), SingleOrigin(b))
  ELSE <<scale[b]>>

SingleItem(b) ==
  ConvertItem(NormalizeBatch(SingleVertices(b), SingleOrigin(b),
                             SingleScale(b))[1],
              faces, resolution, return_sparse)

SingleGrid(b) ==
  LET vg == SingleItem(b).voxelgrid
  IN  IF vg.kind = "dense" THEN vg.grid ELSE ToDense(vg.indices, resolution)

(* C2: every slot of the batch result that has been written equals the     *)
(* one slot of the result of converting that item alone with the same      *)
(* origin and scale; the other items of the batch never change it.         *)
C2_BatchIndependence ==
  /\ pc \in {"loop", "done", "raised"} =>
       \A b \in 1..i : SingleItem(b).ok /\ voxelgrids[b] = SingleGrid(b)
  /\ pc = "done" =>
       \A b \in 1..BatchSize : result.grids[b] = SingleGrid(b)

C2_Witness ==
  /\ pc = "done"
  /\ BatchSize = 2
  /\ origin_omitted /\ scale_omitted
  /\ vertices[1] = DocTriangle /\ vertices[2] = Slanted
  /\ resolution = 3
  /\ result.grids[1] # result.grids[2]

(* ---- C9 ---- *)
Midpoints(t) ==
  {Midpoint(t[1], t[2]), Midpoint(t[2], t[3]), Midpoint(t[1], t[3])}

ZeroArea(t) == t[1] = t[2] \/ t[2] = t[3] \/ t[1] = t[3]

(* the faces of the item whose points were stored last *)
LastTriangles ==
  {FaceTriangle(batched_points[i], faces[k]) : k \in 1..Len(faces)}

(* C9: subdivision of a normalized mesh ends, for every face (zero-area    *)
(* ones included), after the number of midpoint-split rounds fixed from    *)
(* the face's longest edge and the voxel width; then every edge of every   *)
(* sub-triangle is at most 1/resolution long, and the points returned      *)
(* hold the face's vertices and the midpoints introduced in every round.   *)
C9_SubdivisionBounded ==
  (pc = "loop" /\ i >= 1) =>
    \A t \in LastTriangles :
      LET d == Depth(t, resolution)
      IN  /\ d >= 0
          /\ \A s \in SubTriangles({t}, d) : \A e \in TriEdges(s) :
                LET l == EdgeLen2(e[1], e[2])
                IN  l.num * resolution * resolution <= l.den
          /\ d > 0 => \E e \in TriEdges(t) :
                LET l == EdgeLen2(e[1], e[2])
                IN  l.num * resolution * resolution > Pow4(d - 1) * l.den
          /\ {t[1], t[2], t[3]} \subseteq points
          /\ \A r \in 0..(d - 1) : \A s \in SubTriangles({t}, r) :
                Midpoints(s) \subseteq points

C9_Witness ==
  /\ pc = "loop" /\ i >= 1
  /\ \E t \in LastTriangles : Depth(t, resolution) >= 2
  /\ \E t \in LastTriangles : ZeroArea(t) /\ Depth(t, resolution) >= 1

(* ---- C4 ---- *)
ResolutionValid == resolution_type = "int" /\ resolution >= 1

FacesValid == \A k \in 1..Len(faces) : FaceIndexOk(faces[k], 3)

(* every scale item known so far (supplied, or defaulted once resolved) *)
ScalePositive == \A b \in 1..Len(scale) : scale[b] > 0

(* C4: a call with return_sparse set returns, for each batch item, the set *)
(* of its distinct occupied voxel indices, and the dense grid rebuilt from *)
(* that set equals the item's grid of the same call without return_sparse. *)
C4_SparseDenseEquivalence ==
  (/\ return_sparse /\ BatchSize >= 1
   /\ ResolutionValid /\ FacesValid /\ ScalePositive
   /\ pc \in {"done", "raised"})
    => /\ pc = "done"
       /\ result.kind = "sparse"
       /\ \A b \in 1..BatchSize :
            /\ result.grids[b] \subseteq Cells(resolution)
            /\ ToDense(result.grids[b], resolution)
                 = ConvertItem(batched_points[b], faces, resolution,
                               FALSE).voxelgrid.grid

(* ---- C5 ---- *)
(* C5: a call whose resolution is not a positive integer ends in an error *)
(* raised by the entry point before any normalization, subdivision or      *)
(* rasterization happens, and returns no grid.                             *)
C5_ResolutionRejected ==
  (~ResolutionValid /\ FacesValid /\ ScalePositive) =>
    /\ pc \notin {"loop", "done"}
    /\ batched_points = <<>>
    /\ result.kind = "none"

(* ---- C6 ---- *)
(* C6: a call whose face list holds an index outside [0, V) ends in an     *)
(* error and returns no grid; no slot is written from such an index.       *)
C6_FaceIndexRejected ==
  (~FacesValid /\ ResolutionValid /\ ScalePositive) =>
    /\ pc # "done"
    /\ result.kind = "none"
    /\ i = 0

(* ---- C7 ---- *)
(* C7: a call with a supplied scale item <= 0 ends in an error, returns no *)
(* grid, and never carries out the division (v - origin) / scale.          *)
C7_ScaleRejected ==
  (/\ ~scale_omitted /\ \E b \in 1..BatchSize : scale[b] <= 0
   /\ ResolutionValid /\ FacesValid) =>
    /\ pc \notin {"loop", "done"}
    /\ batched_points = <<>>
    /\ result.kind = "none"

(* ---- C8 ---- *)
Halved(c) == <<c[1] \div 2, c[2] \div 2, c[3] \div 2>>

(* C8: for the same mesh, origin and scale, every voxel occupied at        *)
(* resolution 2R lies within a voxel occupied at resolution R.             *)
C8_MonotonicRefinement ==
  (pc = "done" /\ resolution >= 1) =>
    \A b \in 1..BatchSize :
      LET fine == ConvertItem(batched_points[b], faces, 2 * resolution,
                              FALSE)
      IN  fine.ok =>
            \A c \in Cells(2 * resolution) :
              fine.voxelgrid.grid[c] = 1 => result.grids[b][Halved(c)] = 1

====
